---- MODULE Spec2Model ----
(***************************************************************************)
(* Model of the AI Scorecard server and dashboard aggregation:             *)
(*   - the analytics adapter (GET /api/gemini/usage): subprocess spawn,    *)
(*     stdout/stderr collection, close handler, timeout timer, and the     *)
(*     host's SIGTERM/SIGINT handlers;                                     *)
(*   - the board pipeline: processMondayData (normalisation with the ROI   *)
(*     parse), the /api/metrics reducers and the dashboard's               *)
(*     calculateMetrics;                                                   *)
(*   - the compatibility endpoint GET /api/gemini, two usage requests in   *)
(*     flight at once, and the polling effect of the two data hooks;       *)
(*   - the fetches of the data hooks and how they settle, the status line  *)
(*     of AILiteracyChart, and DepartmentGrid with its selection.          *)
(* Text is modelled as a sequence of one-character strings.                *)
(***************************************************************************)
EXTENDS Integers, Sequences, FiniteSets, TLC

\* ------------------------------------------------------------------ bounds
\* requests served by one server run
Reqs == {"r1", "r2"}

\* the request of the runs that serve one request at a time
Single == {"r1"}

\* the two data hooks of the dashboard
Hooks == {"useMondayData", "useGeminiData"}

\* fetches a hook issues in one run
MaxFetches == 3

\* initiatives in the data prop of DepartmentGrid
MaxGridItems == 3

\* ------------------------------------------------------------- JS values
\* the exit code the close event carries when the child died by a signal
\* (JavaScript null)
NullCode == 0 - 1

Str(t) == <<t>>

\* --------------------------------------------------- subprocess behaviour
\* what the script can print on standard output: a complete document with
\* summary and cache_status, one without cache_status, one without either,
\* and text that is not JSON; a child that exits early leaves a prefix.
Outputs ==
  { <<"{", "s", "c", "}">>, <<"{", "s", "}">>, <<"{", "}">>, <<"n", "o">> }

\* what the script can print on standard error (a traceback naming a path)
ErrTexts == { <<>>, <<"/", "k">> }

Variants == {"server", "fallback", "cachedFallback"}

\* ------------------------------------------------------------ JSON.parse
\* JSON.parse over the modelled alphabet: an object "{" members "}" whose
\* members are the keys s (summary) and c (cache_status); anything else is
\* a SyntaxError.
JSONValid(s) ==
  /\ Len(s) >= 2
  /\ s[1] = "{"
  /\ s[Len(s)] = "}"
  /\ \A i \in 2..(Len(s) - 1) : s[i] \in {"s", "c"}

JSONParse(s) ==
  [summary |-> \E i \in 1..Len(s) : s[i] = "s",
   cache_status |-> \E i \in 1..Len(s) : s[i] = "c"]

NoDoc == [summary |-> FALSE, cache_status |-> FALSE]

\* ------------------------------------------------------- response bodies
Response(st, kind, errText, flag, summ, det, cd, pout, perr, d) ==
  [status |-> st, kind |-> kind, error |-> errText, errorFlag |-> flag,
   summary |-> summ, details |-> det, code |-> cd,
   python_output |-> pout, python_error |-> perr, doc |-> d]

\* the console.log of the success branch dereferences fields of the parsed
\* document; a missing field makes it throw a TypeError inside the try
LogThrows(variant, d) ==
  IF variant = "fallback"
    THEN ~d.summary
    ELSE ~d.summary \/ ~d.cache_status

ParseErrorText(variant) ==
  IF variant = "fallback" THEN "Failed to parse Gemini data"
  ELSE "Failed to parse optimized Gemini data"

\* catch (parseError) branch
ParseErrorResponse(variant, out, err) ==
  Response(500, "parseError", ParseErrorText(variant), FALSE, "none",
           <<>>, NullCode, out, err, NoDoc)

\* a close handler whose else branch answers every variant with the zeroed
\* placeholder snapshot
FailureResponse_AlwaysFallback(variant, code, err) ==
  Response(200, "fallback", "", TRUE, "zero",
           Str("Python script error: ") \o
             (IF err # <<>> THEN err ELSE Str("Unknown error")),
           NullCode, <<>>, <<>>, NoDoc)

\* else branch of the close handler
FailureResponse(variant, code, err) ==
  CASE variant = "server" ->
         Response(503, "unavailable", "Gemini data service unavailable",
                  FALSE, "none",
                  IF err # <<>> THEN err ELSE Str("Python script execution failed"),
                  code, <<>>, <<>>, NoDoc)
    [] variant = "fallback" ->
         Response(200, "fallback", "", TRUE, "zero",
                  Str("Python script error: ") \o
                    (IF err # <<>> THEN err ELSE Str("Unknown error")),
                  NullCode, <<>>, <<>>, NoDoc)
    [] OTHER ->
         Response(200, "fallback", "", TRUE, "canned",
                  Str("Fallback data - Python error: ") \o
                    (IF err # <<>> THEN err ELSE Str("Unknown error")),
                  NullCode, <<>>, <<>>, NoDoc)

\* a close handler that treats output it cannot parse as a failed run
CloseResponse_ParseAsFailure(variant, code, out, err) ==
  IF code = 0 /\ out # <<>> /\ JSONValid(out)
       /\ ~LogThrows(variant, JSONParse(out))
    THEN Response(200, "data", "", FALSE, "live", <<>>, NullCode,
                  <<>>, <<>>, JSONParse(out))
    ELSE FailureResponse(variant, code, err)

\* a close handler that tests the exit code only, and so hands empty output
\* to JSON.parse
CloseResponse_CodeOnly(variant, code, out, err) ==
  IF code = 0
    THEN IF ~JSONValid(out) \/ LogThrows(variant, JSONParse(out))
           THEN ParseErrorResponse(variant, out, err)
           ELSE Response(200, "data", "", FALSE, "live", <<>>, NullCode,
                         <<>>, <<>>, JSONParse(out))
    ELSE FailureResponse(variant, code, err)

\* pythonProcess.on('close', (code) => ...)
CloseResponse(variant, code, out, err) ==
  IF code = 0 /\ out # <<>>
    THEN IF ~JSONValid(out) \/ LogThrows(variant, JSONParse(out))
           THEN ParseErrorResponse(variant, out, err)
           ELSE Response(200, "data", "", FALSE, "live", <<>>, NullCode,
                         <<>>, <<>>, JSONParse(out))
    ELSE FailureResponse(variant, code, err)

\* outer catch of the handler
HandlerErrorResponse(variant) ==
  Response(500, "handlerError",
           IF variant = "fallback" THEN "Failed to fetch Gemini usage data"
           ELSE "Failed to fetch optimized Gemini usage data",
           FALSE, "none", <<>>, NullCode, <<>>, <<>>, NoDoc)

\* ----------------------------------------------------------------- state
VARIABLES
  variant,       \* which server file is running
  host,          \* "up" | "exited" | "crashed"
  pc,            \* per request: "idle" | "waiting" | "closed" | "failed"
  child,         \* per request: "none" | "running" | "exited" | "spawnfail"
  plan,          \* per request: what the child will do
  toWrite,       \* per request: stdout text the child has not yet written
  exitCode,      \* per request: code of the close event
  exitSignal,    \* per request: signal of the close event
  sigPending,    \* per request: SIGTERM sent to the child, not yet delivered
  pythonOutput,  \* per request: collected stdout
  pythonError,   \* per request: collected stderr
  timer,         \* per request: "unset" | "armed" | "fired"
  killedLive,    \* per request: the timer's kill found the child running
  resp           \* per request: responses written, in order

uvars == <<variant, host, pc, child, plan, toWrite, exitCode, exitSignal,
           sigPending, pythonOutput, pythonError, timer, killedLive, resp>>

VARIABLES
  board,         \* the board API's payload: a sequence of groups of raw items
  boardResp,     \* response of GET /api/monday/board (status 0: none yet)
  metricsResp,   \* response of GET /api/metrics (status 0: none yet)
  boardProcessed,   \* processedData of the last GET /api/monday/board
  metricsProcessed, \* processedData of the last GET /api/metrics
  boardFetch,    \* how the board API call of GET /api/monday/board ended
  metricsFetch,  \* how the board API call of GET /api/metrics ended
  data,          \* useMondayData: the data state
  hookError,     \* useMondayData: the error state ("" is null)
  metrics        \* ScorecardDashboard: calculateMetrics() of the last render

bvars == <<board, boardResp, metricsResp, boardProcessed, metricsProcessed,
           boardFetch, metricsFetch, data, hookError, metrics>>

VARIABLES
  gpc,           \* GET /api/gemini: "idle" | "fetching" | "done"
  geminiResp     \* response of GET /api/gemini (status 0: none yet)

gvars == <<gpc, geminiResp>>

VARIABLES
  hookMounted,   \* per hook: the component using it is mounted
  hookInterval,  \* per hook: the interval set by the effect is active
  hookDue,       \* per hook: milliseconds until the interval's next tick
  hookFetches    \* per hook: calls of fetchData so far

hvars == <<hookMounted, hookInterval, hookDue, hookFetches>>

VARIABLES
  hookPending,     \* per hook: the fetchData calls that have not settled
  hookLoading,     \* per hook: the loading state
  hookData,        \* per hook: the data state, as the number of the fetch
                   \* whose result it is (0: the initial value)
  hookLastUpdated, \* per hook: the lastUpdated state, as the number of
                   \* successful fetches it has been set by (0: null)
  hookErr          \* per hook: the error state is not null

fvars == <<hookPending, hookLoading, hookData, hookLastUpdated, hookErr>>

VARIABLES
  chartData,     \* AILiteracyChart: geminiData, <<>> for null
  chartError,    \* AILiteracyChart: error ("" is null)
  chartLoading   \* AILiteracyChart: loading

cvars == <<chartData, chartError, chartLoading>>

VARIABLES
  gridData,            \* DepartmentGrid: the data prop
  selectedDepartment,  \* DepartmentGrid: the state, <<>> for null
  gridCrashed          \* DepartmentGrid: a render has thrown

dvars == <<gridData, selectedDepartment, gridCrashed>>

vars == <<uvars, gvars, bvars, hvars, fvars, cvars, dvars>>

NoPlan == [ignoresTerm |-> FALSE, hangs |-> FALSE, err |-> <<>>, out |-> <<>>]

UsageInit ==
  /\ variant \in Variants
  /\ host = "up"
  /\ pc = [r \in Reqs |-> "idle"]
  /\ child = [r \in Reqs |-> "none"]
  /\ plan = [r \in Reqs |-> NoPlan]
  /\ toWrite = [r \in Reqs |-> <<>>]
  /\ exitCode = [r \in Reqs |-> NullCode]
  /\ exitSignal = [r \in Reqs |-> "none"]
  /\ sigPending = [r \in Reqs |-> FALSE]
  /\ pythonOutput = [r \in Reqs |-> <<>>]
  /\ pythonError = [r \in Reqs |-> <<>>]
  /\ timer = [r \in Reqs |-> "unset"]
  /\ killedLive = [r \in Reqs |-> FALSE]
  /\ resp = [r \in Reqs |-> <<>>]

\* app.get('/api/gemini/usage'): spawn, attach listeners, arm the timer.
\* spawn either starts the child, or fails asynchronously (ENOENT and the
\* like: an 'error' event on the next tick), or throws synchronously.
HandleUsage(r) ==
  /\ host = "up"
  /\ pc[r] = "idle"
  /\ \E outcome \in {"ok", "asyncError", "throw"} :
       CASE outcome = "throw" ->
              /\ pc' = [pc EXCEPT ![r] = "failed"]
              /\ resp' = [resp EXCEPT ![r] = Append(@, HandlerErrorResponse(variant))]
              /\ UNCHANGED <<child, plan, toWrite, timer>>
         [] outcome = "asyncError" ->
              /\ pc' = [pc EXCEPT ![r] = "waiting"]
              /\ child' = [child EXCEPT ![r] = "spawnfail"]
              /\ timer' = [timer EXCEPT ![r] = "armed"]
              /\ UNCHANGED <<plan, toWrite, resp>>
         [] OTHER ->
              /\ pc' = [pc EXCEPT ![r] = "waiting"]
              /\ child' = [child EXCEPT ![r] = "running"]
              /\ timer' = [timer EXCEPT ![r] = "armed"]
              /\ \E it \in BOOLEAN, hg \in BOOLEAN, e \in ErrTexts, o \in Outputs :
                   /\ plan' = [plan EXCEPT ![r] =
                                 [ignoresTerm |-> it, hangs |-> hg, err |-> e,
                                  out |-> IF hg THEN <<>> ELSE o]]
                   /\ toWrite' = [toWrite EXCEPT ![r] = IF hg THEN <<>> ELSE o]
              /\ UNCHANGED resp
  /\ UNCHANGED <<variant, host, exitCode, exitSignal, sigPending,
                 pythonOutput, pythonError, killedLive>>
  /\ UNCHANGED <<gvars, bvars, hvars, fvars, cvars, dvars>>

\* the 'error' event of a child that could not be spawned: the handler
\* registers no 'error' listener, so the emit throws and the process dies
SpawnErrorEvent(r) ==
  /\ host = "up"
  /\ child[r] = "spawnfail"
  /\ host' = "crashed"
  /\ UNCHANGED <<variant, pc, child, plan, toWrite, exitCode, exitSignal,
                 sigPending, pythonOutput, pythonError, timer, killedLive, resp>>
  /\ UNCHANGED <<gvars, bvars, hvars, fvars, cvars, dvars>>

\* pythonProcess.stdout.on('data'): the child writes a chunk
StdoutData_Shared(r) ==
  /\ host = "up"
  /\ child[r] = "running"
  /\ toWrite[r] # <<>>
  /\ \E k \in 1..Len(toWrite[r]) :
       /\ pythonOutput' = [q \in Reqs |->
                             pythonOutput[q] \o SubSeq(toWrite[r], 1, k)]
       /\ toWrite' = [toWrite EXCEPT
                        ![r] = SubSeq(@, k + 1, Len(@))]
  /\ UNCHANGED <<variant, host, pc, child, plan, exitCode, exitSignal,
                 sigPending, pythonError, timer, killedLive, resp>>
  /\ UNCHANGED <<gvars, bvars, hvars, fvars, cvars, dvars>>

StdoutData(r) ==
  /\ host = "up"
  /\ child[r] = "running"
  /\ toWrite[r] # <<>>
  /\ \E k \in 1..Len(toWrite[r]) :
       /\ pythonOutput' = [pythonOutput EXCEPT
                             ![r] = @ \o SubSeq(toWrite[r], 1, k)]
       /\ toWrite' = [toWrite EXCEPT
                        ![r] = SubSeq(@, k + 1, Len(@))]
  /\ UNCHANGED <<variant, host, pc, child, plan, exitCode, exitSignal,
                 sigPending, pythonError, timer, killedLive, resp>>
  /\ UNCHANGED <<gvars, bvars, hvars, fvars, cvars, dvars>>

\* pythonProcess.stderr.on('data'): the child writes its error text
StderrData(r) ==
  /\ host = "up"
  /\ child[r] = "running"
  /\ ~plan[r].hangs
  /\ plan[r].err # <<>>
  /\ pythonError[r] = <<>>
  /\ pythonError' = [pythonError EXCEPT ![r] = @ \o plan[r].err]
  /\ UNCHANGED <<variant, host, pc, child, plan, toWrite, exitCode,
                 exitSignal, sigPending, pythonOutput, timer, killedLive, resp>>
  /\ UNCHANGED <<gvars, bvars, hvars, fvars, cvars, dvars>>

\* the child exits by itself with status 0 or 1 (a hung child never does)
ChildExit(r) ==
  /\ child[r] = "running"
  /\ ~plan[r].hangs
  /\ \E c \in {0, 1} :
       exitCode' = [exitCode EXCEPT ![r] = c]
  /\ child' = [child EXCEPT ![r] = "exited"]
  /\ UNCHANGED <<variant, host, pc, plan, toWrite, exitSignal, sigPending,
                 pythonOutput, pythonError, timer, killedLive, resp>>
  /\ UNCHANGED <<gvars, bvars, hvars, fvars, cvars, dvars>>

\* a timer callback that also answers the request
TimerFire_Responds(r) ==
  /\ host = "up"
  /\ timer[r] = "armed"
  /\ timer' = [timer EXCEPT ![r] = "fired"]
  /\ sigPending' = [sigPending EXCEPT ![r] = (child[r] = "running")]
  /\ killedLive' = [killedLive EXCEPT ![r] = (child[r] = "running")]
  /\ resp' = [resp EXCEPT ![r] =
                Append(@, FailureResponse(variant, NullCode, pythonError[r]))]
  /\ UNCHANGED <<variant, host, pc, child, plan, toWrite, exitCode,
                 exitSignal, pythonOutput, pythonError>>
  /\ UNCHANGED <<gvars, bvars, hvars, fvars, cvars, dvars>>

\* setTimeout callback: pythonProcess.kill('SIGTERM'); the timer is never
\* cleared, so it also fires after the close event
TimerFire(r) ==
  /\ host = "up"
  /\ timer[r] = "armed"
  /\ timer' = [timer EXCEPT ![r] = "fired"]
  /\ sigPending' = [sigPending EXCEPT ![r] = (child[r] = "running")]
  /\ killedLive' = [killedLive EXCEPT ![r] = (child[r] = "running")]
  /\ UNCHANGED <<variant, host, pc, child, plan, toWrite, exitCode,
                 exitSignal, pythonOutput, pythonError, resp>>
  /\ UNCHANGED <<gvars, bvars, hvars, fvars, cvars, dvars>>

\* the child receives the SIGTERM: it dies of it unless it ignores it
ChildTerm(r) ==
  /\ sigPending[r]
  /\ child[r] = "running"
  /\ sigPending' = [sigPending EXCEPT ![r] = FALSE]
  /\ IF plan[r].ignoresTerm
       THEN UNCHANGED <<child, exitCode, exitSignal>>
       ELSE /\ child' = [child EXCEPT ![r] = "exited"]
            /\ exitCode' = [exitCode EXCEPT ![r] = NullCode]
            /\ exitSignal' = [exitSignal EXCEPT ![r] = "SIGTERM"]
  /\ UNCHANGED <<variant, host, pc, plan, toWrite, pythonOutput,
                 pythonError, timer, killedLive, resp>>
  /\ UNCHANGED <<gvars, bvars, hvars, fvars, cvars, dvars>>

\* pythonProcess.on('close'): emitted once, after the child has exited and
\* its streams have ended
CloseEvent(r) ==
  /\ host = "up"
  /\ pc[r] = "waiting"
  /\ child[r] = "exited"
  /\ pc' = [pc EXCEPT ![r] = "closed"]
  /\ resp' = [resp EXCEPT ![r] =
                Append(@, CloseResponse(variant, exitCode[r],
                                        pythonOutput[r], pythonError[r]))]
  /\ UNCHANGED <<variant, host, child, plan, toWrite, exitCode, exitSignal,
                 sigPending, pythonOutput, pythonError, timer, killedLive>>
  /\ UNCHANGED <<gvars, bvars, hvars, fvars, cvars, dvars>>

\* process.on('SIGTERM') / process.on('SIGINT'): process.exit(0)
HostSignal ==
  /\ host = "up"
  /\ \E sig \in {"SIGTERM", "SIGINT"} : host' = "exited"
  /\ UNCHANGED <<variant, pc, child, plan, toWrite, exitCode, exitSignal,
                 sigPending, pythonOutput, pythonError, timer, killedLive, resp>>
  /\ UNCHANGED <<gvars, bvars, hvars, fvars, cvars, dvars>>

\* ------------------------------------------------- GET /api/gemini
NoGeminiResp == [status |-> 0, error |-> "", body |-> <<>>]

GeminiInit ==
  /\ gpc = "idle"
  /\ geminiResp = NoGeminiResp

\* app.get('/api/gemini') up to its first await: fetch() sends a request
\* for /api/gemini/usage to the same server; r1 is that inner request.
\* Only server.js registers the route.
HandleGemini ==
  /\ host = "up"
  /\ variant = "server"
  /\ gpc = "idle"
  /\ pc["r1"] = "idle"
  /\ gpc' = "fetching"
  /\ UNCHANGED geminiResp
  /\ UNCHANGED <<uvars, bvars, hvars, fvars, cvars, dvars>>

\* the inner request was answered: data = await response.json();
\* res.json(data), whatever the status of the inner response was
GeminiForward ==
  /\ host = "up"
  /\ gpc = "fetching"
  /\ Len(resp["r1"]) > 0
  /\ gpc' = "done"
  /\ geminiResp' = [status |-> 200, error |-> "", body |-> <<resp["r1"][1]>>]
  /\ UNCHANGED <<uvars, bvars, hvars, fvars, cvars, dvars>>

\* the catch block: fetch rejected because the inner request got no
\* response (headers timeout, connection reset)
GeminiCatch ==
  /\ host = "up"
  /\ gpc = "fetching"
  /\ Len(resp["r1"]) = 0
  /\ gpc' = "done"
  /\ geminiResp' = [status |-> 500, error |-> "Failed to fetch Gemini data",
                    body |-> <<>>]
  /\ UNCHANGED <<uvars, bvars, hvars, fvars, cvars, dvars>>

\* ------------------------------------------------------- AILiteracyChart
\* String.prototype.includes on a text given as a sequence of pieces, for a
\* needle that is one piece
Includes(text, needle) ==
  \E i \in 1..Len(text) : text[i] = needle

\* the data_source field of a response body: the placeholder bodies set
\* it; what the script prints is not part of this repository
DataSource(body) ==
  IF body.kind = "fallback" THEN body.details ELSE <<>>

\* const isConnected =
\*   geminiData && !geminiData.data_source?.includes('Not connected')
IsConnected ==
  /\ chartData # <<>>
  /\ ~Includes(DataSource(chartData[1]), "Not connected")

\* the status line of the chart: loading ? ... : error ? ... :
\* isConnected ? "Connected to Gemini analytics" : "Ready for integration"
ChartStatus ==
  IF chartLoading THEN "loading"
  ELSE IF chartError # "" THEN "error"
  ELSE IF IsConnected THEN "connected"
  ELSE "ready"

\* useGeminiData.fetchData of the chart settling on the response of the
\* usage request, or on a rejected fetch when the server is gone
ChartFetch ==
  /\ chartLoading
  /\ \/ /\ Len(resp["r1"]) > 0
        /\ IF resp["r1"][1].status \in 200..299
             THEN /\ chartData' = <<resp["r1"][1]>>
                  /\ chartError' = ""
             ELSE /\ chartError' = "HTTP error! status"
                  /\ UNCHANGED chartData
     \/ /\ Len(resp["r1"]) = 0
        /\ host # "up"
        /\ chartError' = "Failed to fetch"
        /\ UNCHANGED chartData
  /\ chartLoading' = FALSE
  /\ UNCHANGED <<uvars, gvars, bvars, hvars, fvars, dvars>>

UsageNext ==
  \/ \E r \in Single : HandleUsage(r)
  \/ \E r \in Single : SpawnErrorEvent(r)
  \/ \E r \in Single : StdoutData(r)
  \/ \E r \in Single : StderrData(r)
  \/ \E r \in Single : ChildExit(r)
  \/ \E r \in Single : TimerFire(r)
  \/ \E r \in Single : ChildTerm(r)
  \/ \E r \in Single : CloseEvent(r)
  \/ HostSignal
  \/ HandleGemini
  \/ GeminiForward
  \/ GeminiCatch
  \/ ChartFetch


\* ===================================================== board pipeline ===
\* ------------------------------------------------------------------ bounds
MaxItems == 2
MaxGroups == 2
MaxRoiLen == 2

SeqsUpTo(S, n) == UNION { [1..k -> S] : k \in 0..n }

\* ------------------------------------------------------------- JS numbers
Num(n) == [t |-> "num", v |-> n]
NaN == [t |-> "nan", v |-> 0]
Null == [t |-> "null", v |-> 0]

\* x || 0 on a number, NaN or null
OrZero(x) == IF x.t = "num" THEN x.v ELSE 0

\* ----------------------------------------------------------- parseFloat
Digits == {"0", "1", "2", "3", "4", "5", "6", "7", "8", "9"}

DigitVal(c) ==
  CASE c = "0" -> 0 [] c = "1" -> 1 [] c = "2" -> 2 [] c = "3" -> 3
    [] c = "4" -> 4 [] c = "5" -> 5 [] c = "6" -> 6 [] c = "7" -> 7
    [] c = "8" -> 8 [] c = "9" -> 9

\* number of leading digits of s from position i on
RECURSIVE DigitRun(_, _)
DigitRun(s, i) ==
  IF i > Len(s) \/ s[i] \notin Digits THEN 0 ELSE 1 + DigitRun(s, i + 1)

\* decimal value of the n digits of s that start at position i
RECURSIVE DigitsValue(_, _, _)
DigitsValue(s, i, n) ==
  IF n = 0 THEN 0
  ELSE 10 * DigitsValue(s, i, n - 1) + DigitVal(s[i + n - 1])

\* parseFloat restricted to signs and digits: the longest prefix that is a
\* decimal literal, NaN when there is none
ParseFloat(s) ==
  LET signed == Len(s) >= 1 /\ s[1] \in {"-", "+"}
      start == IF signed THEN 2 ELSE 1
      n == DigitRun(s, start)
      mag == DigitsValue(s, start, n)
  IN IF n = 0 THEN NaN
     ELSE IF signed /\ s[1] = "-" THEN Num(0 - mag) ELSE Num(mag)

\* ------------------------------------------------------- raw board items
\* a column of an item: absent from column_values, present with text null,
\* or present with a text
Absent(e) == [k |-> "absent", t |-> e]
NullText(e) == [k |-> "null", t |-> e]
Text(x) == [k |-> "text", t |-> x]

\* status labels of the board: the labels of the mapping table, the empty
\* label, a label outside the table, and a label that is also the name of a
\* property every JavaScript object inherits
TableStatuses ==
  {"Backlog", "Evaluation", "Scoping", "In Progress", "Done", "Closed",
   "On Hold"}
Statuses == TableStatuses \cup {"", "Blocked", "constructor"}

RoiChars == {"1", "-", "a"}
RoiTexts == SeqsUpTo(RoiChars, MaxRoiLen)
RoiCols == {Absent(<<>>), NullText(<<>>)} \cup { Text(x) : x \in RoiTexts }

\* labels of the function dropdown: none, two departments, and a label that
\* is also the name of an inherited property
Functions == {"", "IT", "HR", "constructor"}
FunctionCols == {Absent(""), NullText("")} \cup { Text(x) : x \in Functions }

RawItem(s, r, f) == [status |-> s, roi |-> r, function |-> f]

\* the items the board can hold: every status, every ROI column and every
\* function column, each varied against a fixed rest of the item
RawItems ==
  { RawItem(Text(s), Text(<<"1">>), Text("IT")) : s \in Statuses }
    \cup { RawItem(Absent(""), Text(<<"1">>), Text("IT")),
           RawItem(NullText(""), Text(<<"1">>), Text("IT")) }
    \cup { RawItem(Text("Backlog"), r, Text("IT")) : r \in RoiCols }
    \cup { RawItem(Text("Done"), Text(<<"1">>), f) : f \in FunctionCols }

\* -------------------------------------------------- processMondayData
\* getColumnValue: column?.text || ''
GetColumnValue(col, empty) ==
  IF col.k = "text" /\ col.t # empty THEN col.t ELSE empty

\* const roi = roiText ? parseFloat(roiText) : 0
ParseRoi(col) ==
  LET roiText == GetColumnValue(col, <<>>)
  IN IF roiText # <<>> THEN ParseFloat(roiText) ELSE Num(0)

\* boardData.groups.flatMap(group => group.items_page.items)
RECURSIVE FlatMap(_)
FlatMap(groups) ==
  IF groups = <<>> THEN <<>> ELSE Head(groups) \o FlatMap(Tail(groups))

\* a normalisation that copies the column's text as it finds it
Normalize_NoDefault(item) ==
  [id |-> item.id,
   name |-> item.name,
   status |-> IF item.status.k = "text" THEN item.status.t ELSE "undefined",
   function |-> IF item.function.k = "text" THEN item.function.t
                ELSE "undefined",
   roi |-> ParseRoi(item.roi)]

\* the object returned by items.map(item => ...)
Normalize(item) ==
  [id |-> item.id,
   name |-> item.name,
   status |-> GetColumnValue(item.status, ""),
   function |-> GetColumnValue(item.function, ""),
   roi |-> ParseRoi(item.roi)]

ProcessMondayData(hasBoard, groups) ==
  IF ~hasBoard THEN <<>>
  ELSE LET items == FlatMap(groups)
       IN [i \in 1..Len(items) |-> Normalize(items[i])]

\* res.json(processedData): JSON.stringify writes NaN as null
ToJSON(items) ==
  [i \in 1..Len(items) |->
     [items[i] EXCEPT !.roi = IF @.t = "nan" THEN Null ELSE @]]

\* --------------------------------------------------------- JS objects
\* an object is a function from its own keys to values
ObjSet(o, k, x) ==
  [y \in (DOMAIN o) \cup {k} |-> IF y = k THEN x ELSE o[y]]

\* properties an object literal inherits from Object.prototype, with the
\* text the inherited value has when used as a property key
ObjectPrototype == [constructor |-> "function Object() { [native code] }"]

\* ------------------------------------------------------ calculateMetrics
StatusMapping ==
  ("Backlog" :> "backlog") @@ ("Evaluation" :> "inFlight")
    @@ ("Scoping" :> "inFlight") @@ ("In Progress" :> "inFlight")
    @@ ("Done" :> "completed") @@ ("Closed" :> "completed")
    @@ ("On Hold" :> "onHold")

\* statusMapping[item.status] || 'other', as the key it is used as
MappedStatus(status) ==
  IF status \in DOMAIN StatusMapping THEN StatusMapping[status]
  ELSE IF status \in DOMAIN ObjectPrototype THEN ObjectPrototype[status]
  ELSE "other"

EmptyMetrics == [backlog |-> 0, inFlight |-> 0, completed |-> 0, totalROI |-> 0]

\* a reducer that assigns the item's roi to totalROI instead of adding it
MetricsStep_Overwrite(acc, item) ==
  LET mappedStatus == MappedStatus(item.status)
      counted == ObjSet(acc, mappedStatus,
                        (IF mappedStatus \in DOMAIN acc
                           THEN acc[mappedStatus] ELSE 0) + 1)
  IN [counted EXCEPT !["totalROI"] = OrZero(item.roi)]

\* the reducer of calculateMetrics applied to one item
MetricsStep(acc, item) ==
  LET mappedStatus == MappedStatus(item.status)
      counted == ObjSet(acc, mappedStatus,
                        (IF mappedStatus \in DOMAIN acc
                           THEN acc[mappedStatus] ELSE 0) + 1)
  IN [counted EXCEPT !["totalROI"] = @ + OrZero(item.roi)]

RECURSIVE MetricsReduce(_, _, _)
MetricsReduce(acc, items, i) ==
  IF i > Len(items) THEN acc
  ELSE MetricsReduce(MetricsStep(acc, items[i]), items, i + 1)

CalculateMetrics(d) ==
  IF Len(d) = 0 THEN EmptyMetrics ELSE MetricsReduce(EmptyMetrics, d, 1)

\* ------------------------------------------------------- /api/metrics
\* value of a count property: a number, or (after "+ 1" on an inherited
\* function) the function's text followed by v ones
Cnt(n) == [t |-> "num", v |-> n]
Garbled(n) == [t |-> "str", v |-> n]

\* acc[key] = (acc[key] || 0) + 1 on an object that started as {}
CountStep(acc, key) ==
  ObjSet(acc, key,
         IF key \in DOMAIN acc
           THEN (IF acc[key].t = "num" THEN Cnt(acc[key].v + 1)
                 ELSE Garbled(acc[key].v + 1))
           ELSE IF key \in DOMAIN ObjectPrototype THEN Garbled(1)
           ELSE Cnt(1))

RECURSIVE StatusCounts(_, _, _)
StatusCounts(acc, items, i) ==
  IF i > Len(items) THEN acc
  ELSE StatusCounts(
         CountStep(acc, IF items[i].status # "" THEN items[i].status
                        ELSE "Unknown"),
         items, i + 1)

RECURSIVE DepartmentCounts(_, _, _)
DepartmentCounts(acc, items, i) ==
  IF i > Len(items) THEN acc
  ELSE DepartmentCounts(
         CountStep(acc, IF items[i].function # "" THEN items[i].function
                        ELSE "Other"),
         items, i + 1)

RECURSIVE TotalROI(_, _, _)
TotalROI(sum, items, i) ==
  IF i > Len(items) THEN sum
  ELSE TotalROI(sum + OrZero(items[i].roi), items, i + 1)

EmptyObj == [k \in {} |-> Cnt(0)]

NoBoardResp == [status |-> 0, body |-> <<>>, error |-> ""]
NoMetricsResp ==
  [status |-> 0, totalInitiatives |-> 0, statusBreakdown |-> EmptyObj,
   departmentBreakdown |-> EmptyObj, totalROI |-> 0, error |-> ""]

\* fetchMondayBoard: the board, no board with that id (boards[0] is
\* undefined), an errors payload, or a transport failure
FetchOutcomes == {"ok", "noBoard", "errors", "transport"}

\* a fetchMondayBoard without the check of response.data.errors
FetchThrows_TransportOnly(outcome) == outcome = "transport"

\* fetchMondayBoard throws: axios.post rejected, or the response carries
\* an errors payload
FetchThrows(outcome) == outcome \in {"transport", "errors"}

BoardInit ==
  /\ board = <<>>
  /\ boardResp = NoBoardResp
  /\ metricsResp = NoMetricsResp
  /\ boardProcessed = <<>>
  /\ metricsProcessed = <<>>
  /\ boardFetch = "none"
  /\ metricsFetch = "none"
  /\ data = <<>>
  /\ hookError = ""
  /\ metrics = CalculateMetrics(<<>>)

Editing == boardResp.status = 0 /\ metricsResp.status = 0

ItemCount == Len(FlatMap(board))

\* the board's owner adds a group
AddGroup ==
  /\ Editing
  /\ Len(board) < MaxGroups
  /\ board' = Append(board, <<>>)
  /\ UNCHANGED <<boardResp, metricsResp, boardProcessed, metricsProcessed,
                 boardFetch, metricsFetch, data, hookError, metrics>>
  /\ UNCHANGED <<uvars, gvars, hvars, fvars, cvars, dvars>>

\* the board's owner adds an item to the last group
AddItem ==
  /\ Editing
  /\ board # <<>>
  /\ ItemCount < MaxItems
  /\ \E it \in RawItems :
       board' = [board EXCEPT ![Len(board)] =
                   Append(@, [id |-> ItemCount + 1, name |-> "Initiative",
                              status |-> it.status,
                              roi |-> it.roi, function |-> it.function])]
  /\ UNCHANGED <<boardResp, metricsResp, boardProcessed, metricsProcessed,
                 boardFetch, metricsFetch, data, hookError, metrics>>
  /\ UNCHANGED <<uvars, gvars, hvars, fvars, cvars, dvars>>

\* app.get('/api/monday/board')
GetBoard ==
  /\ boardResp.status = 0
  /\ \E outcome \in FetchOutcomes :
       /\ boardFetch' = IF outcome \in {"errors", "transport"}
                          THEN "failed" ELSE "answered"
       /\ IF FetchThrows(outcome)
         THEN /\ boardResp' = [status |-> 500, body |-> <<>>,
                               error |-> "Failed to fetch Monday.com data"]
              /\ UNCHANGED boardProcessed
         ELSE LET processedData == ProcessMondayData(outcome = "ok", board)
              IN /\ boardProcessed' = processedData
                 /\ boardResp' = [status |-> 200,
                                  body |-> ToJSON(processedData),
                                  error |-> ""]
  /\ UNCHANGED <<board, metricsResp, metricsProcessed, metricsFetch, data,
                 hookError, metrics>>
  /\ UNCHANGED <<uvars, gvars, hvars, fvars, cvars, dvars>>

\* app.get('/api/metrics')
GetMetrics ==
  /\ metricsResp.status = 0
  /\ \E outcome \in FetchOutcomes :
       /\ metricsFetch' = IF outcome \in {"errors", "transport"}
                            THEN "failed" ELSE "answered"
       /\ IF FetchThrows(outcome)
         THEN /\ metricsResp' =
                   [NoMetricsResp EXCEPT !.status = 500,
                                         !.error = "Failed to calculate metrics"]
              /\ UNCHANGED metricsProcessed
         ELSE LET processedData == ProcessMondayData(outcome = "ok", board)
              IN /\ metricsProcessed' = processedData
                 /\ metricsResp' =
                      [status |-> 200,
                       totalInitiatives |-> Len(processedData),
                       statusBreakdown |->
                         StatusCounts(EmptyObj, processedData, 1),
                       departmentBreakdown |->
                         DepartmentCounts(EmptyObj, processedData, 1),
                       totalROI |-> TotalROI(0, processedData, 1),
                       error |-> ""]
  /\ UNCHANGED <<board, boardResp, boardProcessed, boardFetch, data,
                 hookError, metrics>>
  /\ UNCHANGED <<uvars, gvars, hvars, fvars, cvars, dvars>>

\* useMondayData.fetchData settling on the board response, and the render
\* of ScorecardDashboard that follows the state change
HookFetch ==
  /\ boardResp.status # 0
  /\ IF boardResp.status = 200
       THEN /\ data' = boardResp.body
            /\ hookError' = ""
            /\ metrics' = CalculateMetrics(boardResp.body)
       ELSE /\ hookError' = "HTTP error! status: 500"
            /\ UNCHANGED <<data, metrics>>
  /\ UNCHANGED <<board, boardResp, metricsResp, boardProcessed,
                 metricsProcessed, boardFetch, metricsFetch>>
  /\ UNCHANGED <<uvars, gvars, hvars, fvars, cvars, dvars>>

BoardNext ==
  \/ AddGroup
  \/ AddItem
  \/ GetBoard
  \/ GetMetrics
  \/ HookFetch

\* ------------------------------------------------------- the data hooks
\* the delay given to setInterval, in milliseconds
Period(h) ==
  IF h = "useMondayData" THEN 5 * 60 * 1000 ELSE 10 * 60 * 1000

HookInit ==
  /\ hookMounted = [h \in Hooks |-> FALSE]
  /\ hookInterval = [h \in Hooks |-> FALSE]
  /\ hookDue = [h \in Hooks |-> 0]
  /\ hookFetches = [h \in Hooks |-> 0]
  /\ hookPending = [h \in Hooks |-> {}]
  /\ hookLoading = [h \in Hooks |-> TRUE]
  /\ hookData = [h \in Hooks |-> 0]
  /\ hookLastUpdated = [h \in Hooks |-> 0]
  /\ hookErr = [h \in Hooks |-> FALSE]

\* fetchData up to its first await: setLoading(true), and the request is
\* on its way
StartFetch(h) ==
  /\ hookLoading' = [hookLoading EXCEPT ![h] = TRUE]
  /\ hookPending' = [hookPending EXCEPT ![h] = @ \cup {hookFetches[h] + 1}]
  /\ UNCHANGED <<hookData, hookLastUpdated, hookErr>>

\* the effect of the hook, run once when the component mounts, on the
\* fresh state of the new instance:
\* fetchData(); const interval = setInterval(fetchData, period)
Mount(h) ==
  /\ ~hookMounted[h]
  /\ hookFetches[h] < MaxFetches
  /\ hookMounted' = [hookMounted EXCEPT ![h] = TRUE]
  /\ hookFetches' = [hookFetches EXCEPT ![h] = @ + 1]
  /\ hookInterval' = [hookInterval EXCEPT ![h] = TRUE]
  /\ hookDue' = [hookDue EXCEPT ![h] = Period(h)]
  /\ hookLoading' = [hookLoading EXCEPT ![h] = TRUE]
  /\ hookPending' = [hookPending EXCEPT ![h] = {hookFetches[h] + 1}]
  /\ hookData' = [hookData EXCEPT ![h] = 0]
  /\ hookLastUpdated' = [hookLastUpdated EXCEPT ![h] = 0]
  /\ hookErr' = [hookErr EXCEPT ![h] = FALSE]
  /\ UNCHANGED <<uvars, gvars, bvars, cvars, dvars>>

\* time passes until the next tick of an active interval is due
TimePasses ==
  /\ \E h \in Hooks : hookInterval[h]
  /\ \A h \in Hooks : hookInterval[h] => hookDue[h] > 0
  /\ LET active == { h \in Hooks : hookInterval[h] }
         step == CHOOSE d \in { hookDue[h] : h \in active } :
                   \A h \in active : d <= hookDue[h]
     IN hookDue' = [h \in Hooks |->
                      IF hookInterval[h] THEN hookDue[h] - step ELSE hookDue[h]]
  /\ UNCHANGED <<hookMounted, hookInterval, hookFetches>>
  /\ UNCHANGED <<uvars, gvars, bvars, fvars, cvars, dvars>>

\* a tick of the interval: the timer calls fetchData and is due again one
\* period later
IntervalTick(h) ==
  /\ hookInterval[h]
  /\ hookDue[h] = 0
  /\ hookFetches[h] < MaxFetches
  /\ hookFetches' = [hookFetches EXCEPT ![h] = @ + 1]
  /\ hookDue' = [hookDue EXCEPT ![h] = Period(h)]
  /\ StartFetch(h)
  /\ UNCHANGED <<hookMounted, hookInterval>>
  /\ UNCHANGED <<uvars, gvars, bvars, cvars, dvars>>

\* the Retry and Refresh buttons of ScorecardDashboard: onClick={refetch};
\* while loading is true the dashboard renders the spinner only
Refetch(h) ==
  /\ h = "useMondayData"
  /\ hookMounted[h]
  /\ ~hookLoading[h]
  /\ hookFetches[h] < MaxFetches
  /\ hookFetches' = [hookFetches EXCEPT ![h] = @ + 1]
  /\ StartFetch(h)
  /\ UNCHANGED <<hookMounted, hookInterval, hookDue>>
  /\ UNCHANGED <<uvars, gvars, bvars, cvars, dvars>>

\* the cleanup of the effect, run when the component unmounts:
\* clearInterval(interval)
Unmount_KeepsInterval(h) ==
  /\ hookMounted[h]
  /\ hookMounted' = [hookMounted EXCEPT ![h] = FALSE]
  /\ hookPending' = [hookPending EXCEPT ![h] = {}]
  /\ UNCHANGED <<hookLoading, hookData, hookLastUpdated, hookErr>>
  /\ UNCHANGED <<hookInterval, hookDue, hookFetches>>
  /\ UNCHANGED <<uvars, gvars, bvars, cvars, dvars>>

Unmount(h) ==
  /\ hookMounted[h]
  /\ hookMounted' = [hookMounted EXCEPT ![h] = FALSE]
  /\ hookInterval' = [hookInterval EXCEPT ![h] = FALSE]
  /\ hookDue' = [hookDue EXCEPT ![h] = 0]
  /\ hookPending' = [hookPending EXCEPT ![h] = {}]
  /\ UNCHANGED <<hookLoading, hookData, hookLastUpdated, hookErr>>
  /\ UNCHANGED hookFetches
  /\ UNCHANGED <<uvars, gvars, bvars, cvars, dvars>>

\* the rest of fetchData for a fetch that got an ok response with a JSON
\* body: setData(result); setLastUpdated(new Date()); setError(null);
\* finally setLoading(false)
SettleOk(h, f) ==
  /\ hookMounted[h]
  /\ f \in hookPending[h]
  /\ hookPending' = [hookPending EXCEPT ![h] = @ \ {f}]
  /\ hookData' = [hookData EXCEPT ![h] = f]
  /\ hookLastUpdated' = [hookLastUpdated EXCEPT ![h] = @ + 1]
  /\ hookErr' = [hookErr EXCEPT ![h] = FALSE]
  /\ hookLoading' = [hookLoading EXCEPT ![h] = FALSE]
  /\ UNCHANGED <<hvars, uvars, gvars, bvars, cvars, dvars>>

\* a failed refresh that also drops what the hook holds
SettleFail_DropsData(h, f) ==
  /\ hookMounted[h]
  /\ f \in hookPending[h]
  /\ hookPending' = [hookPending EXCEPT ![h] = @ \ {f}]
  /\ hookData' = [hookData EXCEPT ![h] = 0]
  /\ hookErr' = [hookErr EXCEPT ![h] = TRUE]
  /\ hookLoading' = [hookLoading EXCEPT ![h] = FALSE]
  /\ UNCHANGED hookLastUpdated
  /\ UNCHANGED <<hvars, uvars, gvars, bvars, cvars, dvars>>

\* the rest of fetchData for a fetch that was rejected, got a response
\* that is not ok, or a body that is not JSON: the catch block does
\* setError(err.message); finally setLoading(false)
SettleFail(h, f) ==
  /\ hookMounted[h]
  /\ f \in hookPending[h]
  /\ hookPending' = [hookPending EXCEPT ![h] = @ \ {f}]
  /\ hookErr' = [hookErr EXCEPT ![h] = TRUE]
  /\ hookLoading' = [hookLoading EXCEPT ![h] = FALSE]
  /\ UNCHANGED <<hookData, hookLastUpdated>>
  /\ UNCHANGED <<hvars, uvars, gvars, bvars, cvars, dvars>>

HookNext ==
  \/ \E h \in Hooks : Mount(h)
  \/ TimePasses
  \/ \E h \in Hooks : IntervalTick(h)
  \/ \E h \in Hooks : Refetch(h)
  \/ \E h \in Hooks : Unmount(h)
  \/ \E h \in Hooks : \E f \in 1..MaxFetches : SettleOk(h, f)
  \/ \E h \in Hooks : \E f \in 1..MaxFetches : SettleFail(h, f)

\* ------------------------------------------------------- AILiteracyChart
ChartInit ==
  /\ chartData = <<>>
  /\ chartError = ""
  /\ chartLoading = TRUE

\* ------------------------------------------------------- DepartmentGrid
\* the initiatives the data prop can hold: every function label, with a
\* number or null as roi
GridItem(i, f, r) ==
  [id |-> i, name |-> "Initiative", status |-> "Done", function |-> f,
   roi |-> r]

GridFunctions == {"", "IT", "constructor"}

GridDatas ==
  UNION { { [i \in 1..n |-> GridItem(i, fs[i], rs[i])] :
              fs \in [1..n -> GridFunctions], rs \in [1..n -> {Num(1), Null}] } :
          n \in 0..MaxGridItems }

\* const dept = item.function || 'Other'
DeptName(item) == IF item.function = "" THEN "Other" ELSE item.function

\* the forEach of processDepartmentData over items i, i+1, ...; depts is
\* the departments object, its own keys in insertion order.
\* departments[dept] of a key the object does not own finds the inherited
\* property: !departments[dept] is then false, no entry is created, and
\* departments[dept].initiatives.push throws a TypeError.
RECURSIVE DeptFold(_, _, _)
DeptFold(depts, items, i) ==
  IF i > Len(items) THEN [threw |-> FALSE, depts |-> depts]
  ELSE LET item == items[i]
           dept == DeptName(item)
           own == \E k \in 1..Len(depts) : depts[k].name = dept
       IN IF ~own /\ dept \in DOMAIN ObjectPrototype
            THEN [threw |-> TRUE, depts |-> depts]
            ELSE LET withDept ==
                       IF own THEN depts
                       ELSE Append(depts, [name |-> dept, count |-> 0,
                                           roi |-> 0, initiatives |-> <<>>])
                     next ==
                       [k \in 1..Len(withDept) |->
                          IF withDept[k].name = dept
                            THEN [withDept[k] EXCEPT
                                    !.count = @ + 1,
                                    !.roi = @ + OrZero(item.roi),
                                    !.initiatives = Append(@, item)]
                            ELSE withDept[k]]
                 IN DeptFold(next, items, i + 1)

\* Array.prototype.sort((a, b) => b.count - a.count): a stable sort, by
\* count, largest first
RECURSIVE SortByCount(_)
SortByCount(ds) ==
  IF ds = <<>> THEN <<>>
  ELSE LET sorted == SortByCount(SubSeq(ds, 1, Len(ds) - 1))
           d == ds[Len(ds)]
           p == Cardinality({ k \in 1..Len(sorted) : sorted[k].count >= d.count })
       IN SubSeq(sorted, 1, p) \o <<d>> \o SubSeq(sorted, p + 1, Len(sorted))

\* processDepartmentData: the departments, or the TypeError
ProcessDepartmentData(items) ==
  LET r == DeptFold(<<>>, items, 1)
  IN [threw |-> r.threw,
      depts |-> IF r.threw THEN <<>> ELSE SortByCount(r.depts)]

GridInit ==
  /\ gridData = <<>>
  /\ selectedDepartment = <<>>
  /\ gridCrashed = FALSE

\* the dashboard renders the grid with a new data prop while the grid stays
\* mounted: its state is kept; a render that throws takes the tree down
DataReplaced ==
  /\ ~gridCrashed
  /\ \E d \in GridDatas :
       /\ d # gridData
       /\ gridData' = d
       /\ gridCrashed' = ProcessDepartmentData(d).threw
  /\ UNCHANGED selectedDepartment
  /\ UNCHANGED <<uvars, gvars, bvars, hvars, fvars, cvars>>

\* handleDepartmentClick on the k-th card
DepartmentClick ==
  /\ ~gridCrashed
  /\ LET departmentData == ProcessDepartmentData(gridData).depts
     IN \E k \in 1..Len(departmentData) :
          LET dept == departmentData[k]
          IN selectedDepartment' =
               IF selectedDepartment # <<>>
                    /\ selectedDepartment[1].name = dept.name
                 THEN <<>> ELSE <<dept>>
  /\ UNCHANGED <<gridData, gridCrashed>>
  /\ UNCHANGED <<uvars, gvars, bvars, hvars, fvars, cvars>>

\* the close button of the details panel: setSelectedDepartment(null)
CloseDetails ==
  /\ ~gridCrashed
  /\ selectedDepartment # <<>>
  /\ selectedDepartment' = <<>>
  /\ UNCHANGED <<gridData, gridCrashed>>
  /\ UNCHANGED <<uvars, gvars, bvars, hvars, fvars, cvars>>

GridNext ==
  \/ DataReplaced
  \/ DepartmentClick
  \/ CloseDetails

Init ==
  UsageInit /\ GeminiInit /\ BoardInit /\ HookInit /\ ChartInit /\ GridInit

UsageSpec == Init /\ [][UsageNext]_vars

\* the board handlers are the same in every server file
BoardSpecInit == Init /\ variant = "server"

BoardSpec == BoardSpecInit /\ [][BoardNext]_vars

HookSpec == BoardSpecInit /\ [][HookNext]_vars

\* two requests in flight at once on server.js, with children that end by
\* themselves or die of the timer's SIGTERM
ConcNext ==
  \/ \E r \in Reqs :
       HandleUsage(r) /\ ~plan'[r].hangs /\ ~plan'[r].ignoresTerm
  \/ \E r \in Reqs : SpawnErrorEvent(r)
  \/ \E r \in Reqs : StdoutData(r)
  \/ \E r \in Reqs : StderrData(r)
  \/ \E r \in Reqs : ChildExit(r)
  \/ \E r \in Reqs : TimerFire(r)
  \/ \E r \in Reqs : ChildTerm(r)
  \/ \E r \in Reqs : CloseEvent(r)

ConcSpec == BoardSpecInit /\ [][ConcNext]_vars

GridSpec == BoardSpecInit /\ [][GridNext]_vars

\* the steps that belong to request r once its handler has run
RequestStep(r) ==
  \/ SpawnErrorEvent(r)
  \/ StdoutData(r)
  \/ StderrData(r)
  \/ ChildExit(r)
  \/ TimerFire(r)
  \/ ChildTerm(r)
  \/ CloseEvent(r)

\* the close handler ran for a child that exited non-zero or died of the
\* timer's SIGTERM
FailedRun(r) == pc[r] = "closed" /\ exitCode[r] # 0

C2_NeverFailsOutward ==
  \A r \in Reqs : pc[r] # "idle" => host # "crashed"

\* ------------------------------------------------------------------ C3
\* C3: once the timer has fired on a child that was still running and
\* nothing more can happen for the request, the response has been sent and
\* the child is no longer running, whatever the child does with SIGTERM.
C3_TimeoutEndsRequest ==
  \A r \in Reqs :
    (host = "up" /\ killedLive[r] /\ ~ENABLED RequestStep(r)) =>
      /\ Len(resp[r]) = 1
      /\ child[r] # "running"

\* ------------------------------------------------------------------ C4
\* C4: the host never has exited on SIGTERM/SIGINT while a subprocess it
\* spawned is still running.
C4_NoOrphanOnShutdown ==
  host = "exited" => \A r \in Reqs : child[r] # "running"

\* ------------------------------------------------------------------ C5
\* C5: a child that exits 0 with non-empty standard output that is not JSON
\* gets a 500 parse-error response, whose status and body differ from every
\* response the handler gives for an unavailable source.
C5_ParseErrorDistinct ==
  \A r \in Reqs :
    (pc[r] = "closed" /\ exitCode[r] = 0 /\ pythonOutput[r] # <<>>
       /\ ~JSONValid(pythonOutput[r])) =>
      /\ Len(resp[r]) = 1
      /\ resp[r][1].status = 500
      /\ resp[r][1].error \in {"Failed to parse optimized Gemini data",
                               "Failed to parse Gemini data"}
      /\ \A c \in {0, 1, NullCode}, e \in ErrTexts :
           /\ FailureResponse(variant, c, e).status # resp[r][1].status
           /\ FailureResponse(variant, c, e).error # resp[r][1].error

C5_Witness ==
  \E r \in Reqs :
    /\ pc[r] = "closed"
    /\ exitCode[r] = 0
    /\ pythonOutput[r] = <<"n", "o">>
    /\ resp[r][1].status = 500

\* ------------------------------------------------------------------ C6
Count(m, k) == IF k \in DOMAIN m THEN m[k] ELSE 0

Buckets == {"backlog", "inFlight", "completed", "onHold", "other"}

\* C6: the counts of the five status buckets of the aggregation result add
\* up to the number of initiatives aggregated.
C6_BucketCountsSumToLength ==
  Count(metrics, "backlog") + Count(metrics, "inFlight")
    + Count(metrics, "completed") + Count(metrics, "onHold")
    + Count(metrics, "other") = Len(data)

\* ------------------------------------------------------------------ C7
RECURSIVE SumRoi(_)
SumRoi(items) ==
  IF items = <<>> THEN 0 ELSE Head(items).roi.v + SumRoi(Tail(items))

AllNumeric(items) == \A i \in 1..Len(items) : items[i].roi.t = "num"

\* C7: totalROI is the arithmetic sum of the roi of every initiative, in
\* the dashboard's aggregation and in the metrics endpoint, and 0 for the
\* empty sequence.
C7_TotalROIIsSum ==
  /\ AllNumeric(data) => metrics["totalROI"] = SumRoi(data)
  /\ data = <<>> => metrics["totalROI"] = 0
  /\ (metricsResp.status = 200 /\ AllNumeric(metricsProcessed)) =>
       metricsResp.totalROI = SumRoi(metricsProcessed)
  /\ (metricsResp.status = 200 /\ metricsProcessed = <<>>) =>
       metricsResp.totalROI = 0

C7_Witness ==
  /\ Len(data) = 2
  /\ data[1].roi = Num(0 - 1)
  /\ data[2].roi = Num(11)
  /\ metrics["totalROI"] = 10
  /\ metricsResp.status = 200
  /\ metricsResp.totalROI = 10

\* ------------------------------------------------------------------ C8
\* the mapping table as the specification gives it
TableBucket(status) ==
  CASE status = "Backlog" -> "backlog"
    [] status \in {"Evaluation", "Scoping", "In Progress"} -> "inFlight"
    [] status \in {"Done", "Closed"} -> "completed"
    [] status = "On Hold" -> "onHold"
    [] OTHER -> "other"

\* C8: every bucket's count is the number of initiatives whose status the
\* table assigns to that bucket, statuses absent from the table (the empty
\* one included) going to other.
C8_CountedInTableBucket ==
  \A b \in Buckets :
    Count(metrics, b) =
      Cardinality({ i \in 1..Len(data) : TableBucket(data[i].status) = b })

\* ------------------------------------------------------------------ C9
NoDigits(t) == \A i \in 1..Len(t) : t[i] \notin Digits

\* C9: an ROI column that is missing, has no text, or has a text without
\* any number in it gives the Initiative a roi of exactly 0, never NaN.
C9_MalformedRoiIsZero ==
  \A i \in 1..Len(boardProcessed) :
    LET col == FlatMap(board)[i].roi
    IN (col.k # "text" \/ NoDigits(col.t)) => boardProcessed[i].roi = Num(0)

\* ----------------------------------------------------------------- C10
\* C10: every Initiative produced by normalization has a roi that is a
\* finite number greater than or equal to 0.
C10_RoiFiniteNonNegative ==
  \A i \in 1..Len(boardProcessed) :
    /\ boardProcessed[i].roi.t = "num"
    /\ boardProcessed[i].roi.v >= 0

\* ----------------------------------------------------------------- C11
\* C11: the aggregation result always carries every canonical bucket
\* (backlog, inFlight, completed, onHold, other) and totalROI, a bucket no
\* item maps to being present with count 0.
C11_EveryBucketPresent ==
  /\ Buckets \subseteq DOMAIN metrics
  /\ "totalROI" \in DOMAIN metrics

\* ----------------------------------------------------------------- C12
DeptKey(f) == IF f = "" THEN "Other" ELSE f

\* C12: departmentBreakdown has one key per distinct function value, the
\* empty or missing function under "Other", and maps each key to the number
\* of initiatives with that value (so the counts add up to the number of
\* initiatives).
C12_DepartmentCounts ==
  metricsResp.status = 200 =>
    LET P == metricsProcessed
        keys == { DeptKey(P[i].function) : i \in 1..Len(P) }
    IN /\ DOMAIN metricsResp.departmentBreakdown = keys
       /\ \A k \in keys :
            metricsResp.departmentBreakdown[k] =
              Cnt(Cardinality({ i \in 1..Len(P) : DeptKey(P[i].function) = k }))

\* ----------------------------------------------------------------- C14
\* C14: when the board API call fails (transport failure or errors
\* payload), the board endpoint and the metrics endpoint answer 5xx with a
\* message and no data.
C14_UpstreamFailureIs5xx ==
  /\ boardFetch = "failed" =>
       /\ boardResp.status >= 500
       /\ boardResp.status < 600
       /\ boardResp.error # ""
       /\ boardResp.body = <<>>
  /\ metricsFetch = "failed" =>
       /\ metricsResp.status >= 500
       /\ metricsResp.status < 600
       /\ metricsResp.error # ""
       /\ metricsResp.totalInitiatives = 0
       /\ DOMAIN metricsResp.statusBreakdown = {}

C14_Witness ==
  /\ ItemCount = 2
  /\ boardFetch = "failed"
  /\ metricsFetch = "failed"
  /\ boardResp.status = 500
  /\ metricsResp.status = 500

\* ----------------------------------------------------------------- C15
RECURSIVE SumOver(_, _)
SumOver(o, keys) ==
  IF keys = {} THEN 0
  ELSE LET k == CHOOSE x \in keys : TRUE
       IN o[k].v + SumOver(o, keys \ {k})

\* the values of a breakdown are numbers and add up to n
SumsTo(o, n) ==
  /\ \A k \in DOMAIN o : o[k].t = "num"
  /\ SumOver(o, DOMAIN o) = n

\* C15: in a successful metrics response totalInitiatives is the number of
\* normalized initiatives, the sum of the values of statusBreakdown and the
\* sum of the values of departmentBreakdown.
C15_TotalsAgree ==
  metricsResp.status = 200 =>
    /\ metricsResp.totalInitiatives = Len(metricsProcessed)
    /\ SumsTo(metricsResp.statusBreakdown, metricsResp.totalInitiatives)
    /\ SumsTo(metricsResp.departmentBreakdown, metricsResp.totalInitiatives)

\* ----------------------------------------------------------------- C16
\* the texts a child can leave on standard output: the prefixes of Outputs
OutputPrefixes ==
  { SubSeq(o, 1, k) : o \in Outputs, k \in 0..4 }

\* C16: the body of a response that is not the script's document is the
\* body the same run would have got with any other content on standard
\* error, and with any other unparseable content on standard output.
C16_BodyIndependentOfStreams ==
  \A r \in Reqs :
    (pc[r] = "closed" /\ resp[r][1].kind # "data") =>
      /\ \A e \in ErrTexts :
           resp[r][1] =
             CloseResponse(variant, exitCode[r], pythonOutput[r], e)
      /\ \A o \in OutputPrefixes :
           (o # <<>> /\ ~JSONValid(o) /\ pythonOutput[r] # <<>>
              /\ ~JSONValid(pythonOutput[r])) =>
             resp[r][1] = CloseResponse(variant, exitCode[r], o, pythonError[r])

\* ----------------------------------------------------------------- C17
\* C17: whenever the usage endpoint answered the inner request with a
\* non-2xx status, the compatibility endpoint GET /api/gemini answers with
\* a non-2xx status too.
C17_CompatKeepsFailureStatus ==
  (gpc = "done" /\ Len(resp["r1"]) > 0
     /\ resp["r1"][1].status \notin 200..299) =>
    geminiResp.status \notin 200..299

\* ----------------------------------------------------------------- C20
\* the interval of a hook is active exactly while its component is mounted
IntervalWhileMounted ==
  \A h \in Hooks : hookInterval[h] = hookMounted[h]

\* a step that mounts a hook starts one fetch and sets the interval; a tick
\* of the interval starts one fetch; nothing starts a fetch while the hook
\* stays unmounted
FetchesFollowEffect ==
  \A h \in Hooks :
    /\ (~hookMounted[h] /\ hookMounted'[h]) =>
         /\ hookFetches'[h] = hookFetches[h] + 1
         /\ hookDue'[h] = Period(h)
    /\ (hookInterval[h] /\ hookDue[h] = 0 /\ hookDue'[h] = Period(h)) =>
         hookFetches'[h] = hookFetches[h] + 1
    /\ (hookMounted[h] /\ ~hookMounted'[h]) => ~hookInterval'[h]
    /\ (~hookMounted[h] /\ ~hookMounted'[h]) =>
         hookFetches'[h] = hookFetches[h]
    /\ hookFetches'[h] \in {hookFetches[h], hookFetches[h] + 1}

\* C20: each data hook starts one fetch when mounted and one at every tick
\* of its interval while mounted, and unmounting clears the interval, so
\* the timer starts no fetch afterwards.
C20_HooksPollWhileMounted ==
  []IntervalWhileMounted /\ [][FetchesFollowEffect]_vars

\* a hook that was mounted, ticked and was unmounted, next to one that is
\* still mounted after two ticks
C20_Witness ==
  /\ ~hookMounted["useGeminiData"]
  /\ hookFetches["useGeminiData"] = 2
  /\ hookMounted["useMondayData"]
  /\ hookFetches["useMondayData"] = 3
  /\ hookDue["useMondayData"] = 0

\* ----------------------------------------------------------------- C18
\* what the child of request r has written on standard output so far
Written(r) ==
  SubSeq(plan[r].out, 1, Len(plan[r].out) - Len(toWrite[r]))

\* C18: under every interleaving of two requests, the buffers of a request
\* hold only what its own child wrote, and its one response is built from
\* its own buffers and the exit code of its own child.
C18_RequestsShareNoState ==
  \A r \in Reqs :
    /\ pythonOutput[r] = Written(r)
    /\ pythonError[r] \in {<<>>, plan[r].err}
    /\ Len(resp[r]) <= 1
    /\ pc[r] = "closed" =>
         resp[r] = <<CloseResponse(variant, exitCode[r], Written(r),
                                   IF pythonError[r] = <<>> THEN <<>>
                                   ELSE plan[r].err)>>

\* r2 was spawned while r1 was in flight and printed other text; r1 got the
\* document, r2 died of its timer with part of its output written
C18_Witness ==
  /\ pc["r1"] = "closed" /\ pc["r2"] = "closed"
  /\ resp["r1"][1].status = 200 /\ resp["r1"][1].kind = "data"
  /\ resp["r2"][1].status = 503
  /\ exitSignal["r2"] = "SIGTERM"
  /\ pythonOutput["r2"] # <<>>
  /\ pythonError["r2"] # pythonError["r1"]

\* ----------------------------------------------------------------- C19
\* the text a raw column shows, the empty string when the column is absent
\* from column_values or its text is null
ShownText(col) == IF col.k = "text" THEN col.t ELSE ""

\* C19: every Initiative of a board response carries id, name, status and
\* function for its raw item; a column that is absent or whose text is null
\* gives the empty string.
C19_FieldsAlwaysPresent ==
  boardResp.status = 200 =>
    LET items == FlatMap(board)
    IN /\ Len(boardResp.body) \in {0, Len(items)}
       /\ \A i \in 1..Len(boardResp.body) :
            /\ {"id", "name", "status", "function"}
                 \subseteq DOMAIN boardResp.body[i]
            /\ boardResp.body[i].id = items[i].id
            /\ boardResp.body[i].name = items[i].name
            /\ boardResp.body[i].status = ShownText(items[i].status)
            /\ boardResp.body[i].function = ShownText(items[i].function)

\* a response for an item without a status column next to one whose
\* function column has a null text
C19_Witness ==
  /\ boardResp.status = 200
  /\ Len(boardResp.body) = 2
  /\ \E i, j \in 1..2 :
       /\ FlatMap(board)[i].status.k = "absent"
       /\ boardResp.body[i].status = ""
       /\ FlatMap(board)[j].function.k = "null"
       /\ boardResp.body[j].function = ""

\* ----------------------------------------------------------------- C22
\* C22: a usage request gets at most one response, whatever the order of
\* the data events, the close event and the timer; a closed request has
\* exactly one.
C22_AtMostOneResponse ==
  \A r \in Reqs :
    /\ Len(resp[r]) <= 1
    /\ pc[r] \in {"closed", "failed"} => Len(resp[r]) = 1

\* a request whose child wrote on both streams and was closed, and whose
\* timer has fired as well
C22_Witness ==
  /\ pc["r1"] = "closed"
  /\ timer["r1"] = "fired"
  /\ pythonOutput["r1"] # <<>>
  /\ pythonError["r1"] # <<>>
  /\ Len(resp["r1"]) = 1

\* ----------------------------------------------------------------- C25
\* C25: the timer's callback (SIGTERM and the timeout log line) runs only
\* for a request whose child has not closed: after the close event the
\* timer is cancelled.
C25_TimerOnlyBeforeClose ==
  [][\A r \in Reqs :
       (timer[r] = "armed" /\ timer'[r] = "fired") => pc[r] = "waiting"]_vars

\* ----------------------------------------------------------------- C26
\* C26: exit code 0 with a valid JSON document on standard output is
\* answered 200 with that document, whichever fields it has.
C26_ValidDocumentIs200 ==
  \A r \in Reqs :
    (pc[r] = "closed" /\ exitCode[r] = 0 /\ JSONValid(pythonOutput[r])) =>
      /\ resp[r][1].status = 200
      /\ resp[r][1].kind = "data"
      /\ resp[r][1].doc = JSONParse(pythonOutput[r])

\* ----------------------------------------------------------------- C30
\* C30: exit code 0 with empty standard output is answered as a failed run
\* (on server.js 503 carrying code 0), not as a parse error or a success.
C30_EmptyOutputIsUnavailable ==
  \A r \in Reqs :
    (pc[r] = "closed" /\ exitCode[r] = 0 /\ pythonOutput[r] = <<>>) =>
      /\ resp[r] = <<FailureResponse(variant, 0, pythonError[r])>>
      /\ resp[r][1].kind \notin {"parseError", "data"}
      /\ variant = "server" =>
           /\ resp[r][1].status = 503
           /\ resp[r][1].code = 0
           /\ resp[r][1].status = FailureResponse(variant, 1, <<>>).status

C30_Witness ==
  /\ variant = "server"
  /\ pc["r1"] = "closed"
  /\ exitCode["r1"] = 0
  /\ pythonOutput["r1"] = <<>>
  /\ plan["r1"].out # <<>>
  /\ resp["r1"][1].status = 503

\* ----------------------------------------------------------------- C23
\* C23: when fetches of a hook overlap, the data held once they have
\* settled is that of the fetch started last: a response never replaces
\* the result of a fetch that was started after its own.
C23_LatestFetchWins ==
  [][\A h \in Hooks :
       (hookMounted[h] /\ hookMounted'[h] /\ hookData'[h] # hookData[h]) =>
         hookData'[h] > hookData[h]]_vars

\* ----------------------------------------------------------------- C24
\* C24: the loading flag of a mounted hook is true exactly while at least
\* one of its fetches is in flight.
C24_LoadingWhilePending ==
  \A h \in Hooks :
    hookMounted[h] => (hookLoading[h] = (hookPending[h] # {}))

\* ----------------------------------------------------------------- C27
\* a fetch of hook h settles in this step
Settles(h) ==
  /\ hookMounted[h] /\ hookMounted'[h]
  /\ hookPending'[h] # hookPending[h]
  /\ hookPending'[h] \subseteq hookPending[h]

SettleKeepsOrReplaces ==
  \A h \in Hooks :
    Settles(h) =>
      /\ ~hookLoading'[h]
      /\ IF hookErr'[h]
           THEN /\ hookData'[h] = hookData[h]
                /\ hookLastUpdated'[h] = hookLastUpdated[h]
           ELSE /\ hookData'[h] \in hookPending[h] \ hookPending'[h]
                /\ hookLastUpdated'[h] > hookLastUpdated[h]

\* C27: a failed refresh leaves data and lastUpdated as they were and sets
\* error and loading = false; a successful refresh replaces data, moves
\* lastUpdated on and resets error.
C27_FailedRefreshKeepsData ==
  [][SettleKeepsOrReplaces]_vars

\* a hook that holds the result of its first fetch and the error of its
\* second
C27_Witness ==
  \E h \in Hooks :
    /\ hookMounted[h]
    /\ hookErr[h]
    /\ hookData[h] = 1
    /\ hookLastUpdated[h] = 1
    /\ hookFetches[h] = 2
    /\ hookPending[h] = {}
    /\ ~hookLoading[h]

\* ----------------------------------------------------------------- C21
\* C21: the chart shows the connected status only for a snapshot that came
\* from a live fetch; a placeholder or error substitute (error: true) is
\* shown as not connected.
C21_ConnectedOnlyWhenLive ==
  ChartStatus = "connected" =>
    /\ chartData[1].kind = "data"
    /\ ~chartData[1].errorFlag

\* ----------------------------------------------------------------- C28
\* the initiatives of items whose department is name, in the order of items
RECURSIVE OfDepartment(_, _)
OfDepartment(items, name) ==
  IF items = <<>> THEN <<>>
  ELSE (IF DeptName(Head(items)) = name THEN <<Head(items)>> ELSE <<>>)
         \o OfDepartment(Tail(items), name)

\* C28: while a department is selected, the details panel lists exactly the
\* initiatives the current data prop assigns to it, also after the data
\* prop was replaced.
C28_DetailsFollowData ==
  (~gridCrashed /\ selectedDepartment # <<>>) =>
    selectedDepartment[1].initiatives =
      OfDepartment(gridData, selectedDepartment[1].name)

\* ----------------------------------------------------------------- C29
RECURSIVE RoiOf(_)
RoiOf(items) ==
  IF items = <<>> THEN 0 ELSE OrZero(Head(items).roi) + RoiOf(Tail(items))

RECURSIVE CountsOf(_)
CountsOf(ds) ==
  IF ds = <<>> THEN 0 ELSE Head(ds).count + CountsOf(Tail(ds))

Partitions(items, ds) ==
  /\ \A i \in 1..Len(items) :
       \E k \in 1..Len(ds) :
         /\ ds[k].name = DeptName(items[i])
         /\ \E j \in 1..Len(ds[k].initiatives) : ds[k].initiatives[j] = items[i]
         /\ \A m \in 1..Len(ds) :
              (\E j \in 1..Len(ds[m].initiatives) :
                 ds[m].initiatives[j] = items[i]) => m = k
  /\ \A k \in 1..Len(ds) :
       /\ ds[k].count = Len(ds[k].initiatives)
       /\ ds[k].roi = RoiOf(ds[k].initiatives)
  /\ CountsOf(ds) = Len(items)
  /\ \A k \in 1..(Len(ds) - 1) : ds[k].count >= ds[k + 1].count

\* C29: processDepartmentData partitions its input by department, with
\* count and roi per department, counts summing to the input length, and
\* the departments ordered by count, largest first.
C29_DepartmentsPartitionData ==
  LET r == ProcessDepartmentData(gridData)
  IN ~r.threw /\ Partitions(gridData, r.depts)

====
